---- MODULE Spec2Model ----
(***************************************************************************)
(* Credit-risk prediction (German bank): the preprocessing pipeline of     *)
(* src/components/data_transformation.py, the training entry point of      *)
(* src/pipeline/train_pipeline.py, and the inference path of               *)
(* src/pipeline/predict_pipeline.py driven by application.py.              *)
(*                                                                         *)
(* Numbers are fixed point: a numeric cell Num(n) holds n in units of      *)
(* 1/FP, target statistics are in units of 1/StatUnit, probabilities in    *)
(* units of 1/ProbUnit.                                                    *)
(***************************************************************************)
EXTENDS Integers, Sequences, FiniteSets, TLC

VARIABLES store, trainer, pipeline, req, prev

vars == <<store, trainer, pipeline, req, prev>>

-----------------------------------------------------------------------------
(* Bounds of the model.                                                    *)

FP == 2
StatUnit == 1000
ProbUnit == 1000000000
MaxRuns == 2

-----------------------------------------------------------------------------
(* Cells of a pandas DataFrame / numpy array.                              *)

Str(s) == [s |-> s]
Num(n) == [n |-> n]
Whole(i) == [n |-> i * FP]
NaN == [nan |-> TRUE]
None == [none |-> TRUE]

IsStr(c) == DOMAIN c = {"s"}
IsNum(c) == DOMAIN c = {"n"}
IsMissing(c) == c = NaN \/ c = None

NoObj == [absent |-> TRUE]
NoExc == <<>>

RECURSIVE SumSeq(_)
SumSeq(q) == IF q = <<>> THEN 0 ELSE Head(q) + SumSeq(Tail(q))

RECURSIVE SqrtBetween(_, _, _)
SqrtBetween(v, lo, hi) ==
    IF hi - lo <= 1 THEN lo
    ELSE LET mid == (lo + hi) \div 2
         IN  IF mid <= v \div mid THEN SqrtBetween(v, mid, hi)
             ELSE SqrtBetween(v, lo, mid)

ISqrt(v) == IF v <= 0 THEN 0 ELSE SqrtBetween(v, 1, 46341)

Column(rows, f) == [i \in 1..Len(rows) |-> rows[i][f]]

-----------------------------------------------------------------------------
(* The fixed mappings of the Risk and Sex columns: Series.map(dict) gives  *)
(* NaN for every value that is not a key of the dict.                      *)

RiskMap(c) ==
    IF c = Str("bad") THEN Whole(1)
    ELSE IF c = Str("good") THEN Whole(0)
    ELSE NaN

TrainSexMap(c) ==
    IF c = Str("male") THEN Whole(1)
    ELSE IF c = Str("female") THEN Whole(0)
    ELSE NaN

SexMap(c) ==
    IF c = Str("male") THEN Whole(1)
    ELSE IF c = Str("female") THEN Whole(0)
    ELSE NaN

-----------------------------------------------------------------------------
(* The column partition of get_preprocessor.                               *)

numerical_features == <<"Age", "Sex", "Job", "Credit_amount", "Duration">>
target_encoder_features == <<"Saving_accounts", "Checking_account">>
ordinal_encoder_features == <<"Purpose", "Housing">>

FeatureColumns ==
    {"Age", "Sex", "Job", "Housing", "Saving_accounts", "Checking_account",
     "Credit_amount", "Duration", "Purpose"}

target_feature == "Risk"
to_drop_feature == "Unnamed_0"

(* Output column order of the ColumnTransformer: its transformers in the   *)
(* order they are listed, ordinal, target, std_scaler.                     *)
OutputColumns ==
    ordinal_encoder_features \o target_encoder_features \o numerical_features

(* OrdinalEncoder sorts the categories it has seen; this is that order on  *)
(* the category names the model uses.                                      *)
CatOrder ==
    <<"business", "car", "education", "free", "own", "radio/TV", "rent">>

-----------------------------------------------------------------------------
(* Conversion of a cell to float, as check_array(dtype=float64) does for   *)
(* StandardScaler: numbers stay, None and NaN become NaN, a str is parsed  *)
(* by float() and raises ValueError when it is no number.                  *)

FloatText ==
    [t \in {"30", "45", "2", "5000", "12", "30.5"} |->
        CASE t = "30" -> 30 * FP
          [] t = "45" -> 45 * FP
          [] t = "2" -> 2 * FP
          [] t = "5000" -> 5000 * FP
          [] t = "12" -> 12 * FP
          [] t = "30.5" -> 30 * FP + FP \div 2]

ToFloat(c) ==
    IF IsNum(c) THEN [err |-> NoExc, val |-> c]
    ELSE IF IsMissing(c) THEN [err |-> NoExc, val |-> NaN]
    ELSE IF c.s \in DOMAIN FloatText
         THEN [err |-> NoExc, val |-> Num(FloatText[c.s])]
         ELSE [err |-> <<"ValueError">>, val |-> NaN]

-----------------------------------------------------------------------------
(* StandardScaler: mean and standard deviation of the non-NaN values of a  *)
(* column; a zero deviation is replaced by 1.0 (`unit` in fixed point).    *)
(* NaN is ignored by fit and passed through by transform.                  *)

ScalerFit(col, unit) ==
    LET idx == {i \in DOMAIN col : col[i] # NaN}
        n == Cardinality(idx)
        vals == [i \in DOMAIN col |-> IF i \in idx THEN col[i].n ELSE 0]
        mean == IF n = 0 THEN 0 ELSE SumSeq(vals) \div n
        sq == [i \in DOMAIN col |->
                 IF i \in idx THEN (col[i].n - mean) * (col[i].n - mean) ELSE 0]
        dev == IF n = 0 THEN 0 ELSE ISqrt(SumSeq(sq) \div n)
    IN  [mean |-> mean, scale |-> IF dev = 0 THEN unit ELSE dev]

ScalerTransform(st, c) ==
    IF c = NaN THEN NaN ELSE Num(((c.n - st.mean) * FP) \div st.scale)

-----------------------------------------------------------------------------
(* The ordinal pipeline of one column: SimpleImputer(most_frequent), then  *)
(* OrdinalEncoder() with its default handle_unknown='error', then          *)
(* StandardScaler.                                                         *)

Rank(s) == CHOOSE i \in 1..Len(CatOrder) : CatOrder[i] = s

CountOf(col, c) == Cardinality({i \in DOMAIN col : col[i] = c})

(* The imputer masks NaN only: None in an object column is not NaN.        *)
MostFrequent(col) ==
    LET seen == {col[i] : i \in {j \in DOMAIN col : col[j] # NaN}}
    IN  CHOOSE c \in seen : \A d \in seen :
            \/ CountOf(col, c) > CountOf(col, d)
            \/ CountOf(col, c) = CountOf(col, d) /\ Rank(c.s) <= Rank(d.s)

Impute(fill, c) == IF c = NaN THEN fill ELSE c

CodeOf(categories, c) ==
    Whole((CHOOSE i \in 1..Len(categories) : categories[i] = c.s) - 1)

OrdinalFit(col) ==
    LET fill == MostFrequent(col)
        imputed == [i \in DOMAIN col |-> Impute(fill, col[i])]
        seen == {imputed[i].s : i \in DOMAIN col}
        InSeen(s) == s \in seen
        categories == SelectSeq(CatOrder, InSeen)
        codes == [i \in DOMAIN col |-> CodeOf(categories, imputed[i])]
    IN  [fill |-> fill, categories |-> categories,
         scaler |-> ScalerFit(codes, FP)]

OrdinalKnown(st, c) ==
    IsStr(c) /\ \E i \in 1..Len(st.categories) : st.categories[i] = c.s

OrdinalTransform(st, c) ==
    LET v == Impute(st.fill, c)
    IN  IF OrdinalKnown(st, v)
        THEN [err |-> NoExc,
              val |-> ScalerTransform(st.scaler, CodeOf(st.categories, v))]
        ELSE [err |-> <<"ValueError">>, val |-> NaN]

-----------------------------------------------------------------------------
(* The target pipeline of one column: TargetEncoder with its defaults      *)
(* handle_unknown='value' and handle_missing='value' (a missing value seen *)
(* in fit is a category of its own; a category not seen in fit gets the    *)
(* prior, the mean of all training labels), then StandardScaler.  The      *)
(* statistic kept per category is the mean label of its training rows.     *)

Key(c) == IF IsMissing(c) THEN NaN ELSE c

TargetFit(col, y) ==
    LET keys == {Key(col[i]) : i \in DOMAIN col}
        ones == [i \in DOMAIN col |-> y[i].n \div FP]
        prior == (SumSeq(ones) * StatUnit) \div Len(col)
        mean == [k \in keys |->
                   LET at == {i \in DOMAIN col : Key(col[i]) = k}
                       hit == [i \in DOMAIN col |-> IF i \in at THEN ones[i] ELSE 0]
                   IN  (SumSeq(hit) * StatUnit) \div Cardinality(at)]
        encoded == [i \in DOMAIN col |-> Num(mean[Key(col[i])])]
    IN  [mapping |-> mean, prior |-> prior,
         scaler |-> ScalerFit(encoded, StatUnit)]

TargetSeen(st, c) == Key(c) \in DOMAIN st.mapping

TargetEncode(st, c) ==
    IF TargetSeen(st, c) THEN st.mapping[Key(c)] ELSE st.prior

TargetTransform(st, c) ==
    [err |-> NoExc, val |-> ScalerTransform(st.scaler, Num(TargetEncode(st, c)))]

-----------------------------------------------------------------------------
(* The scaler applied to the numerical features.                           *)

NumericFit(col) ==
    ScalerFit([i \in DOMAIN col |-> ToFloat(col[i]).val], FP)

NumericTransform(st, c) ==
    LET f == ToFloat(c)
    IN  IF f.err # NoExc THEN f
        ELSE [err |-> NoExc, val |-> ScalerTransform(st, f.val)]

-----------------------------------------------------------------------------
(* The fitted ColumnTransformer (the preprocessor object).                 *)

Range(q) == {q[i] : i \in DOMAIN q}

FirstErr(res) ==
    LET bad == {i \in DOMAIN res : res[i].err # NoExc}
    IN  IF bad = {} THEN NoExc
        ELSE res[CHOOSE i \in bad : \A j \in bad : i <= j].err

(* ColumnTransformer.fit: each pipeline is fit on its own columns of the   *)
(* training features; the target pipeline also receives the labels.  `run` *)
(* tags the object with the training run that made it.                     *)
PreprocessorFit(X, y, run) ==
    [run |-> run,
     ordinal |-> [f \in Range(ordinal_encoder_features) |-> OrdinalFit(Column(X, f))],
     target |-> [f \in Range(target_encoder_features) |-> TargetFit(Column(X, f), y)],
     numeric |-> [f \in Range(numerical_features) |-> NumericFit(Column(X, f))]]

TransformCell(pre, f, c) ==
    IF f \in Range(ordinal_encoder_features) THEN OrdinalTransform(pre.ordinal[f], c)
    ELSE IF f \in Range(target_encoder_features) THEN TargetTransform(pre.target[f], c)
    ELSE NumericTransform(pre.numeric[f], c)

(* One row through the fitted transformer: the cells in output order, or   *)
(* the error of the first transformer that raises.                         *)
TransformRow(pre, row) ==
    LET res == [i \in DOMAIN OutputColumns |->
                  TransformCell(pre, OutputColumns[i], row[OutputColumns[i]])]
    IN  [err |-> FirstErr(res), val |-> [i \in DOMAIN res |-> res[i].val]]

(* ColumnTransformer.transform on a frame: check_array refuses a frame     *)
(* with no rows.                                                           *)
Transform(pre, X) ==
    LET res == [i \in DOMAIN X |-> TransformRow(pre, X[i])]
    IN  IF Len(X) = 0 THEN [err |-> <<"ValueError">>, val |-> <<>>]
        ELSE [err |-> FirstErr(res), val |-> [i \in DOMAIN X |-> res[i].val]]

-----------------------------------------------------------------------------
(* The CSV files apply_data_transformation may be pointed at.              *)

Row(id, age, sex, job, housing, saving, checking, credit, duration, purpose, risk) ==
    [Unnamed_0 |-> Whole(id), Age |-> Whole(age), Sex |-> sex, Job |-> Whole(job),
     Housing |-> housing, Saving_accounts |-> saving, Checking_account |-> checking,
     Credit_amount |-> Whole(credit), Duration |-> Whole(duration),
     Purpose |-> purpose, Risk |-> risk]

AllColumns == FeatureColumns \cup {target_feature, to_drop_feature}

TrainRowsA ==
    << Row(0, 30, Str("male"), 2, Str("own"), Str("little"), Str("moderate"),
           5000, 12, Str("car"), Str("bad")),
       Row(1, 45, Str("female"), 1, Str("rent"), NaN, Str("little"),
           2000, 24, Str("radio/TV"), Str("good")),
       Row(2, 25, Str("male"), 2, Str("own"), Str("little"), NaN,
           3000, 6, Str("car"), Str("good")) >>

TrainRowsB ==
    << Row(0, 30, Str("Male"), 2, Str("free"), Str("rich"), Str("moderate"),
           4000, 12, Str("education"), Str("bad")),
       Row(1, 50, Str("female"), 3, Str("own"), Str("little"), Str("little"),
           1000, 36, Str("car"), Str("good")) >>

TestRows ==
    << Row(3, 33, Str("female"), 2, NaN, Str("little"), Str("little"),
           2500, 18, Str("car"), Str("good")) >>

TestRowsUnseenPurpose ==
    << Row(3, 33, Str("male"), 2, Str("own"), Str("little"), Str("little"),
           2500, 18, Str("business"), Str("bad")) >>

TestRowsUnseenSaving ==
    << Row(3, 33, Str("male"), 2, Str("own"), Str("quite rich"), Str("rich"),
           2500, 18, Str("car"), Str("bad")) >>

Files ==
    [p \in {"train.csv", "train_b.csv", "train_norisk.csv", "train_empty.csv",
            "test.csv", "test_unseen_purpose.csv", "test_unseen_saving.csv"} |->
        CASE p = "train.csv" -> [columns |-> AllColumns, rows |-> TrainRowsA]
          [] p = "train_b.csv" -> [columns |-> AllColumns, rows |-> TrainRowsB]
          [] p = "train_norisk.csv" ->
                [columns |-> AllColumns \ {target_feature}, rows |-> TrainRowsA]
          [] p = "train_empty.csv" -> [columns |-> AllColumns, rows |-> <<>>]
          [] p = "test.csv" -> [columns |-> AllColumns, rows |-> TestRows]
          [] p = "test_unseen_purpose.csv" ->
                [columns |-> AllColumns, rows |-> TestRowsUnseenPurpose]
          [] p = "test_unseen_saving.csv" ->
                [columns |-> AllColumns, rows |-> TestRowsUnseenSaving]]

TrainPaths ==
    {"train.csv", "train_b.csv", "train_norisk.csv", "train_empty.csv", "missing.csv"}

TestPaths == {"test.csv", "test_unseen_purpose.csv", "test_unseen_saving.csv"}

(* The pairs of paths the component is called with: every training file    *)
(* with the plain test file, and the first training file with each test    *)
(* file.                                                                   *)
PathPairs ==
    {<<tp, "test.csv">> : tp \in TrainPaths} \cup {<<"train.csv", sp>> : sp \in TestPaths}

-----------------------------------------------------------------------------
(* Exceptions are chains of kinds, outermost first: <<"CustomException",   *)
(* "KeyError">> is a CustomException raised from a KeyError.               *)

Wrap(e) == <<"CustomException">> \o e

Cause(e) == e[Len(e)]

(* except Exception as e: raise CustomException(e, sys), one per handler.  *)
WrapPreprocessor(e) == Wrap(e)

Reraise(e) == e

WrapTransformation(e) == Wrap(e)

WrapTrain(e) == Wrap(e)

Swallow(e) == NoExc

WrapPredict(e) == Wrap(e)

-----------------------------------------------------------------------------
(* DataTransformation.get_preprocessor: the unfitted ColumnTransformer,    *)
(* its three transformers in order.  Nothing in its body can raise on this *)
(* fixed configuration.                                                    *)

get_preprocessor ==
    [err |-> NoExc,
     transformers |-> << [name |-> "ordinal", columns |-> ordinal_encoder_features],
                         [name |-> "target", columns |-> target_encoder_features],
                         [name |-> "std_scaler", columns |-> numerical_features] >>]

-----------------------------------------------------------------------------
(* DataTransformation.apply_data_transformation, statement by statement:   *)
(* the first statement that raises ends the body.  `log` lists the calls   *)
(* made on the preprocessor and the save, in order.                        *)

Failed(e, log) ==
    [err |-> e, log |-> log, preprocessor |-> NoObj,
     train_prepared |-> <<>>, test_prepared |-> <<>>]

Prepared(x, y) == [i \in DOMAIN x |-> [x |-> x[i], y |-> y[i]]]

(* Labels of the test set given to the fit in place of the training labels *)
(* of the same positions.                                                  *)
LeakLabels(y_train, y_test) ==
    [i \in DOMAIN y_train |-> IF i \in DOMAIN y_test THEN y_test[i] ELSE y_train[i]]

(* The labels preprocessor.fit_transform(X_train, y_train) receives.       *)
FitLabels(y_train, y_test) == y_train

ApplyDataTransformation(train_path, test_path, run) ==
    IF train_path \notin DOMAIN Files \/ test_path \notin DOMAIN Files
    THEN Failed(<<"FileNotFoundError">>, <<>>)
    ELSE
    LET train == Files[train_path]
        test == Files[test_path]
    IN
    IF get_preprocessor.err # NoExc
    THEN Failed(WrapPreprocessor(get_preprocessor.err), <<>>)
    ELSE IF \/ {target_feature, "Sex"} \ train.columns # {}
       \/ {target_feature, "Sex"} \ test.columns # {}
       \/ {target_feature, to_drop_feature} \ train.columns # {}
       \/ {target_feature, to_drop_feature} \ test.columns # {}
    THEN Failed(<<"KeyError">>, <<>>)
    ELSE
    LET Recode(rows) ==
            [i \in DOMAIN rows |->
                [rows[i] EXCEPT !.Risk = RiskMap(@), !.Sex = TrainSexMap(@)]]
        X_train == Recode(train.rows)
        y_train == Column(X_train, target_feature)
        X_test == Recode(test.rows)
        y_test == Column(X_test, target_feature)
    IN
    IF FeatureColumns \ train.columns # {} \/ Len(X_train) = 0
    THEN Failed(<<"ValueError">>, <<"fit_transform">>)
    ELSE
    LET preprocessor == PreprocessorFit(X_train, FitLabels(y_train, y_test), run)
        X_train_prepared == Transform(preprocessor, X_train)
        X_test_prepared == Transform(preprocessor, X_test)
    IN
    IF X_train_prepared.err # NoExc
    THEN Failed(X_train_prepared.err, <<"fit_transform">>)
    ELSE IF FeatureColumns \ test.columns # {}
    THEN Failed(<<"ValueError">>, <<"fit_transform", "transform">>)
    ELSE IF X_test_prepared.err # NoExc
    THEN Failed(X_test_prepared.err, <<"fit_transform", "transform">>)
    ELSE [err |-> NoExc,
          log |-> <<"fit_transform", "transform", "save_object">>,
          preprocessor |-> preprocessor,
          train_prepared |-> Prepared(X_train_prepared.val, y_train),
          test_prepared |-> Prepared(X_test_prepared.val, y_test)]

(* What a call returns for each pair of paths and each run number.         *)
Transformations ==
    [pair \in PathPairs, run \in 1..MaxRuns |->
        ApplyDataTransformation(pair[1], pair[2], run)]

-----------------------------------------------------------------------------
(* The model: a binary probability estimator fit on the prepared training  *)
(* matrix.  Its fitted parameters are an intercept and one coefficient per *)
(* prepared column, in probability units; `est` says whether the estimator *)
(* refuses NaN in its input or scores it.                                  *)

THRESHOLD == 429025381

Estimators == {"refuses_nan", "accepts_nan"}


SexColumn == CHOOSE i \in DOMAIN OutputColumns : OutputColumns[i] = "Sex"

(* The parameters a fit may end with.                                      *)
ParamChoices ==
    {[intercept |-> THRESHOLD, coef |-> [i \in DOMAIN OutputColumns |-> 0]],
     [intercept |-> THRESHOLD - 1,
      coef |-> [i \in DOMAIN OutputColumns |-> IF i = SexColumn THEN 1 ELSE 0]]}

HasNaN(x) == \E i \in DOMAIN x : x[i] = NaN

Clamp(v) == IF v < 0 THEN 0 ELSE IF v > ProbUnit THEN ProbUnit ELSE v

(* predict_proba on one prepared row: the probabilities of classes_, which *)
(* are the sorted labels 0 and 1, so the second entry is the probability   *)
(* of the class coded 1.                                                   *)
PredictProba(model, x) ==
    IF model.est = "refuses_nan" /\ HasNaN(x)
    THEN [err |-> <<"ValueError">>, val |-> <<>>]
    ELSE LET terms == [i \in DOMAIN x |->
                         IF x[i] = NaN THEN 0 ELSE model.coef[i] * x[i].n]
             p == Clamp(model.intercept + SumSeq(terms))
         IN  [err |-> NoExc, val |-> <<ProbUnit - p, p>>]

FitFails(est, prepared) ==
    est = "refuses_nan" /\ \E i \in DOMAIN prepared : HasNaN(prepared[i].x)

(* The decision of predict: the class-1 column against THRESHOLD.          *)
BAD_RISK == "This customer presents BAD RISK"
GOOD_RISK == "This customer presents GOOD RISK"

DecideStrict(probas) == IF probas[2] > THRESHOLD THEN BAD_RISK ELSE GOOD_RISK

Decide(probas) == IF probas[2] >= THRESHOLD THEN BAD_RISK ELSE GOOD_RISK

-----------------------------------------------------------------------------
(* The form fields application.py reads with request.form.get: a str, or   *)
(* None when the field is not in the form.                                 *)

BaseForm ==
    [age |-> Str("30"), sex |-> Str("male"), job |-> Str("2"),
     housing |-> Str("own"), saving_accounts |-> Str("little"),
     checking_account |-> Str("moderate"), credit_amount |-> Str("5000"),
     duration |-> Str("12"), purpose |-> Str("car")]

Forms ==
    {BaseForm}
    \cup {[BaseForm EXCEPT !.sex = v] : v \in {Str("female"), Str("Male")}}
    \cup {[BaseForm EXCEPT !.age = v] : v \in {Str("30.5"), Str("abc"), None}}
    \cup {[BaseForm EXCEPT !.purpose = v] : v \in {Str("education")}}
    \cup {[BaseForm EXCEPT !.saving_accounts = v] : v \in {Str("quite rich")}}

(* InputData.__init__ and get_input_data_df: the fields, as given, become  *)
(* the one row of a DataFrame under the training column names.             *)
get_input_data_df(form) ==
    [Age |-> form.age, Sex |-> form.sex, Job |-> form.job,
     Housing |-> form.housing, Saving_accounts |-> form.saving_accounts,
     Checking_account |-> form.checking_account,
     Credit_amount |-> form.credit_amount, Duration |-> form.duration,
     Purpose |-> form.purpose]

-----------------------------------------------------------------------------
(* State.                                                                  *)
(*   store     the artifacts directory: preprocessor.pkl and model.pkl     *)
(*   trainer   a run of the training components                            *)
(*   pipeline  the calls of TrainPipeline.train and their outcome          *)
(*   req       per worker, a call of predict: its position, the caller's   *)
(*             features frame, the objects it loaded, what it computed     *)
(*   prev      per worker, how its previous call of predict ended, kept    *)
(*             while the call in progress has the same features at entry   *)
(*             and has loaded the same objects as that call had            *)

Workers == {"w1", "w2"}
SeqWorkers == {"w1"}

IdleReq ==
    [pc |-> "idle", features |-> NoObj, entry |-> NoObj, model |-> NoObj,
     preprocessor |-> NoObj, prepared |-> <<>>, probas |-> <<>>,
     result |-> "", exc |-> NoExc, fault |-> NoExc]

IdleTrainer ==
    [pc |-> "idle", run |-> 0, args |-> <<>>, exc |-> NoExc, fault |-> NoExc,
     log |-> <<>>, train_prepared |-> <<>>, test_prepared |-> <<>>, report |-> NoObj]

Init ==
    /\ store = [preprocessor |-> NoObj, model |-> NoObj]
    /\ trainer = IdleTrainer
    /\ pipeline = [called |-> FALSE, exc |-> NoExc, fault |-> NoExc, stages |-> <<>>]
    /\ req = [w \in Workers |-> IdleReq]
    /\ prev = [w \in Workers |-> NoObj]

-----------------------------------------------------------------------------
(* TrainPipeline.train.  The module binds the names of its import          *)
(* statements: `from src.components import data_ingestion,                 *)
(* data_transformation, model_trainer` binds three modules, not the        *)
(* classes the body calls, so the first call of the body raises NameError  *)
(* inside the try block.                                                   *)

ModuleNames ==
    {"sys", "logging", "CustomException", "data_ingestion",
     "data_transformation", "model_trainer", "TrainPipeline"}

TrainCalls ==
    << [stage |-> "ingestion", name |-> "DataIngestion"],
       [stage |-> "transformation", name |-> "DataTransformation"],
       [stage |-> "model_trainer", name |-> "ModelTrainer"] >>

Unbound == {i \in DOMAIN TrainCalls : TrainCalls[i].name \notin ModuleNames}

train ==
    /\ Unbound # {}
    /\ LET k == CHOOSE i \in Unbound : \A j \in Unbound : i <= j
           fault == <<"NameError">>
       IN  pipeline' = [called |-> TRUE,
                        fault |-> fault,
                        exc |-> WrapTrain(fault),
                        stages |-> [i \in 1..(k - 1) |-> TrainCalls[i].stage]]
    /\ UNCHANGED <<store, trainer, req, prev>>

-----------------------------------------------------------------------------
(* The training components, called one after the other as the body of      *)
(* train orders them.                                                      *)

(* DataTransformation().apply_data_transformation(train_path, test_path):  *)
(* save_object is its last statement, so the preprocessor is stored only   *)
(* when nothing raised.                                                    *)
apply_data_transformation(train_path, test_path) ==
    /\ trainer.pc \in {"idle", "done", "failed"}
    /\ trainer.run < MaxRuns
    /\ LET r == Transformations[<<train_path, test_path>>, trainer.run + 1]
           exc == IF r.err = NoExc THEN NoExc ELSE WrapTransformation(r.err)
       IN  /\ trainer' =
                 [pc |-> IF exc = NoExc THEN "transformed" ELSE "failed",
                  run |-> trainer.run + 1,
                  args |-> <<train_path, test_path>>,
                  fault |-> r.err,
                  exc |-> exc,
                  log |-> r.log,
                  train_prepared |-> r.train_prepared,
                  test_prepared |-> r.test_prepared,
                  report |-> NoObj]
           /\ store' = IF r.err = NoExc
                       THEN [store EXCEPT !.preprocessor = r.preprocessor]
                       ELSE store
    /\ UNCHANGED <<pipeline, req, prev>>

(* ModelTrainer().apply_model_trainer(train_prepared, test_prepared): fit  *)
(* the estimator, store it, then score the test matrix for the report.     *)
apply_model_trainer ==
    /\ trainer.pc = "transformed"
    /\ \E est \in Estimators, par \in ParamChoices :
         LET model == [run |-> trainer.run, est |-> est,
                       intercept |-> par.intercept, coef |-> par.coef]
             scored == [i \in DOMAIN trainer.test_prepared |->
                          PredictProba(model, trainer.test_prepared[i].x)]
         IN  IF FitFails(est, trainer.train_prepared)
             THEN /\ trainer' = [trainer EXCEPT !.pc = "failed",
                                     !.fault = <<"ValueError">>,
                                     !.exc = Wrap(<<"ValueError">>),
                                     !.log = @ \o <<"fit">>,
                                     !.train_prepared = <<>>,
                                     !.test_prepared = <<>>]
                  /\ store' = store
             ELSE /\ store' = [store EXCEPT !.model = model]
                  /\ IF FirstErr(scored) # NoExc
                     THEN trainer' = [trainer EXCEPT !.pc = "failed",
                                        !.fault = FirstErr(scored),
                                        !.exc = Wrap(FirstErr(scored)),
                                        !.log = @ \o <<"fit", "save_object">>,
                                        !.train_prepared = <<>>,
                                        !.test_prepared = <<>>]
                     ELSE trainer' = [trainer EXCEPT !.pc = "done",
                                        !.log = @ \o <<"fit", "save_object", "report">>,
                                        !.train_prepared = <<>>,
                                        !.test_prepared = <<>>,
                                        !.report = [scores |->
                                            [i \in DOMAIN scored |-> scored[i].val[2]]]]
    /\ UNCHANGED <<pipeline, req, prev>>

-----------------------------------------------------------------------------
(* Inference: application.predict_datapoint builds a fresh frame from the  *)
(* form and calls PredictPipeline.predict, whose statements are the steps  *)
(* below.  Every statement of predict is inside its try block.             *)

Done == {"returned", "raised"}

(* except Exception as e: raise CustomException(e, sys).  Were nothing     *)
(* raised from the handler, predict would fall off its end and return      *)
(* None.                                                                   *)
Raised(r, fault) ==
    LET e == WrapPredict(fault)
    IN  [r EXCEPT !.pc = IF e = NoExc THEN "returned" ELSE "raised",
                  !.fault = fault, !.exc = e]

Outcome(r) ==
    [model |-> r.model, preprocessor |-> r.preprocessor, exc |-> r.exc,
     result |-> r.result]

(* The previous outcome stays comparable while the objects loaded so far   *)
(* are the ones the previous call had loaded.                              *)
Comparable(r, o) ==
    /\ o # NoObj
    /\ r.model \in {NoObj, o.model}
    /\ r.preprocessor \in {NoObj, o.preprocessor}
    /\ r.pc \in Done => r.model = o.model /\ r.preprocessor = o.preprocessor

Step(w, r) ==
    /\ req' = [req EXCEPT ![w] = r]
    /\ prev' = [prev EXCEPT ![w] = IF Comparable(r, @) THEN @ ELSE NoObj]
    /\ UNCHANGED <<store, trainer, pipeline>>

(* A call of predict begins with the frame `df`.                           *)
Call(w, df) ==
    /\ req' = [req EXCEPT ![w] =
                 [IdleReq EXCEPT !.pc = "load_model", !.features = df, !.entry = df]]
    /\ prev' = [prev EXCEPT ![w] =
                 IF req[w].pc \in Done /\ req[w].entry = df
                 THEN Outcome(req[w]) ELSE NoObj]
    /\ UNCHANGED <<store, trainer, pipeline>>

(* load_object: the stored object, or an error when the file is absent.    *)
load_object(name) ==
    IF store[name] = NoObj
    THEN [err |-> <<"FileNotFoundError">>, val |-> NoObj]
    ELSE [err |-> NoExc, val |-> store[name]]

(* application.predict_datapoint: InputData(...).get_input_data_df(), then *)
(* predict on that frame.                                                  *)
predict_datapoint(w, form) ==
    /\ req[w].pc \in Done \cup {"idle"}
    /\ Call(w, get_input_data_df(form))

(* predict called once more with the frame of the previous call.           *)
predict_again(w) ==
    /\ req[w].pc \in Done
    /\ Call(w, req[w].features)

load_model(w) ==
    /\ req[w].pc = "load_model"
    /\ LET o == load_object("model")
       IN  Step(w, IF o.err # NoExc THEN Raised(req[w], o.err)
                   ELSE [req[w] EXCEPT !.pc = "load_preprocessor", !.model = o.val])

load_preprocessor(w) ==
    /\ req[w].pc = "load_preprocessor"
    /\ LET o == load_object("preprocessor")
       IN  Step(w, IF o.err # NoExc THEN Raised(req[w], o.err)
                   ELSE [req[w] EXCEPT !.pc = "map_sex", !.preprocessor = o.val])

(* The recoding made on a copy of the frame, the caller's frame left as it *)
(* was given.                                                              *)
MapSexOnCopy(w) ==
    /\ req[w].pc = "map_sex"
    /\ Step(w, [req[w] EXCEPT !.pc = "transform"])

(* features['Sex'] = features['Sex'].map({'male': 1, 'female': 0}): the    *)
(* caller's frame is written in place.                                     *)
map_sex(w) ==
    /\ req[w].pc = "map_sex"
    /\ Step(w, [req[w] EXCEPT !.pc = "transform", !.features.Sex = SexMap(@)])

(* The local variable `preprocessor` of the call.                          *)
LoadedPreprocessor(w) == req[w].preprocessor

(* One frame held by the module and given to every call: the frame of the  *)
(* first worker once it has one.                                           *)
SharedInputRow(w) ==
    IF req["w1"].features = NoObj THEN req[w].features ELSE req["w1"].features

(* The parameter `features` of the call: the frame predict_datapoint built *)
(* for this request.                                                       *)
InputRow(w) == req[w].features

(* A refit on the frame given, as fit_transform would do.                  *)
EncoderFitTransform(pre, features) ==
    LET refit == PreprocessorFit(<<features>>, <<Whole(0)>>, pre.run)
        t == TransformRow(refit, features)
    IN  [err |-> t.err, val |-> t.val, pre |-> refit]

(* preprocessor.transform(features): the prepared row, and the object      *)
(* after the call, which transform leaves as it was.                       *)
EncoderTransform(pre, features) ==
    LET t == TransformRow(pre, features)
    IN  [err |-> t.err, val |-> t.val, pre |-> pre]

(* prepared_data = preprocessor.transform(features)                        *)
transform(w) ==
    /\ req[w].pc = "transform"
    /\ LET t == EncoderTransform(LoadedPreprocessor(w), InputRow(w))
           r == [req[w] EXCEPT !.preprocessor = t.pre]
       IN  Step(w, IF t.err # NoExc THEN Raised(r, t.err)
                   ELSE [r EXCEPT !.pc = "predict_proba", !.prepared = t.val])

StoredModel(w) == store.model

(* The local variable `model` of the call.                                 *)
LoadedModel(w) == req[w].model

(* predicted_probas = model.predict_proba(prepared_data), the comparison   *)
(* with THRESHOLD and the return of the verdict.                           *)
predict_proba(w) ==
    /\ req[w].pc = "predict_proba"
    /\ LET s == PredictProba(LoadedModel(w), req[w].prepared)
       IN  Step(w, IF s.err # NoExc THEN Raised(req[w], s.err)
                   ELSE [req[w] EXCEPT !.pc = "returned", !.probas = s.val,
                                       !.result = Decide(s.val)])

-----------------------------------------------------------------------------

Next ==
    \/ train
    \/ \E pair \in PathPairs : apply_data_transformation(pair[1], pair[2])
    \/ apply_model_trainer
    \/ \E w \in SeqWorkers, form \in Forms : predict_datapoint(w, form)
    \/ \E w \in SeqWorkers : predict_again(w)
    \/ \E w \in SeqWorkers : load_model(w)
    \/ \E w \in SeqWorkers : load_preprocessor(w)
    \/ \E w \in SeqWorkers : map_sex(w)
    \/ \E w \in SeqWorkers : transform(w)
    \/ \E w \in SeqWorkers : predict_proba(w)

Spec == Init /\ [][Next]_vars

-----------------------------------------------------------------------------
(* Requests served by separate workers over the same stored artifacts: the *)
(* training components run once before the first request, then the         *)
(* statements of the workers' calls of predict interleave in any order.    *)

NoRequestYet == \A w \in Workers : req[w].pc = "idle"

NotTrainedYet == trainer.run = 0

ConcNext ==
    \/ NoRequestYet /\ NotTrainedYet /\ \E pair \in PathPairs : apply_data_transformation(pair[1], pair[2])
    \/ NoRequestYet /\ apply_model_trainer
    \/ \E w \in Workers, form \in Forms : predict_datapoint(w, form)
    \/ \E w \in Workers : load_model(w)
    \/ \E w \in Workers : load_preprocessor(w)
    \/ \E w \in Workers : map_sex(w)
    \/ \E w \in Workers : transform(w)
    \/ \E w \in Workers : predict_proba(w)

ConcSpec == Init /\ [][ConcNext]_vars

(* predict run alone on the frame `df` over the artifacts `st`, from its   *)
(* first statement to its return or raise.                                 *)
PredictAlone(df, st) ==
    IF st.model = NoObj \/ st.preprocessor = NoObj
    THEN [exc |-> WrapPredict(<<"FileNotFoundError">>), result |-> ""]
    ELSE LET row == [df EXCEPT !.Sex = SexMap(@)]
             t == TransformRow(st.preprocessor, row)
             s == PredictProba(st.model, t.val)
         IN  IF t.err # NoExc
             THEN [exc |-> WrapPredict(t.err), result |-> ""]
             ELSE IF s.err # NoExc
             THEN [exc |-> WrapPredict(s.err), result |-> ""]
             ELSE [exc |-> NoExc, result |-> Decide(s.val)]

-----------------------------------------------------------------------------
(* Properties.                                                             *)

Verdicts == {BAD_RISK, GOOD_RISK}

C4_UnknownSexRejected ==
    /\ \A w \in Workers :
          req[w].pc \in {"transform", "predict_proba", "returned"} =>
              req[w].entry.Sex \in {Str("male"), Str("female")}
    /\ trainer.args # <<>> /\ trainer.args[1] \in DOMAIN Files
        /\ (\E i \in DOMAIN Files[trainer.args[1]].rows :
               Files[trainer.args[1]].rows[i].Sex \notin {Str("male"), Str("female")})
        => trainer.log = <<>>

(* C5: a row holding a category its feature did not have in fit goes       *)
(* through transform without an error, in predict (where the value of a    *)
(* target-encoded feature resolves to the prior of the fitted state) and   *)
(* in the transform of the test set by apply_data_transformation.          *)
UnseenOrdinal(pre, row) ==
    {f \in Range(ordinal_encoder_features) :
        IsStr(row[f]) /\ ~OrdinalKnown(pre.ordinal[f], row[f])}

UnseenTarget(pre, row) ==
    {f \in Range(target_encoder_features) : ~TargetSeen(pre.target[f], row[f])}

NumericsParse(row) ==
    \A f \in Range(numerical_features) : ToFloat(row[f]).err = NoExc

Position(f) == CHOOSE i \in DOMAIN OutputColumns : OutputColumns[i] = f

(* The test file has a category that the training file does not have in   *)
(* the same encoded column.                                                *)
UnseenInTest(tp, sp) ==
    \E f \in Range(ordinal_encoder_features) \cup Range(target_encoder_features) :
        \E i \in DOMAIN Files[sp].rows :
            /\ IsStr(Files[sp].rows[i][f])
            /\ \A j \in DOMAIN Files[tp].rows :
                  Files[tp].rows[j][f] # Files[sp].rows[i][f]

C5_UnseenCategorySafe ==
    /\ \A w \in Workers :
          LET r == req[w]
          IN  /\ r.preprocessor # NoObj
              /\ r.pc \in {"predict_proba", "returned", "raised"}
              /\ NumericsParse(r.features)
              /\ UnseenOrdinal(r.preprocessor, r.features)
                     \cup UnseenTarget(r.preprocessor, r.features) # {}
              => /\ Len(r.prepared) = Len(OutputColumns)
                 /\ \A f \in UnseenTarget(r.preprocessor, r.features) :
                       r.prepared[Position(f)] =
                          ScalerTransform(r.preprocessor.target[f].scaler,
                                          Num(r.preprocessor.target[f].prior))
    /\ trainer.args # <<>> /\ Len(trainer.log) >= 2
        /\ UnseenInTest(trainer.args[1], trainer.args[2])
        => Len(trainer.log) >= 3

C5_UnseenTargetResolved ==
    \E w \in Workers :
        /\ req[w].pc = "returned"
        /\ UnseenTarget(req[w].preprocessor, req[w].features) # {}

(* C6: no call of predict returns a verdict for a malformed row, one in    *)
(* which age, job, credit amount or duration is not the text of an         *)
(* integer or in which a field is absent.                                  *)
NumericFields == {"Age", "Job", "Credit_amount", "Duration"}

IsIntegerText(c) ==
    IsStr(c) /\ c.s \in DOMAIN FloatText /\ FloatText[c.s] % FP = 0

Malformed(row) ==
    \/ \E f \in NumericFields : ~IsIntegerText(row[f])
    \/ \E f \in FeatureColumns : row[f] = None

C6_MalformedRejected ==
    \A w \in Workers : req[w].pc = "returned" => ~Malformed(req[w].entry)

(* C7: a step of predict leaves the stored artifacts as they are, and      *)
(* leaves the model and the preprocessor it has loaded as they were        *)
(* loaded: the encoder is used, never refit.                               *)
C7_PredictOnlyReads ==
    [][\A w \in Workers :
          req'[w] # req[w] =>
             /\ store' = store
             /\ req[w].pc \in {"transform", "predict_proba"} =>
                   /\ req'[w].preprocessor = req[w].preprocessor
                   /\ req'[w].model = req[w].model]_vars

C7_ReturnedWithStoredObjects ==
    \E w \in Workers :
        /\ req[w].pc = "returned"
        /\ req[w].preprocessor = store.preprocessor
        /\ req[w].model = store.model

(* C8: once a training run has ended, the stored preprocessor is not from  *)
(* a later run than the stored model.                                      *)
C8_PairFromOneRun ==
    trainer.pc \in {"done", "failed"}
    /\ store.preprocessor # NoObj /\ store.model # NoObj
    => store.model.run = store.preprocessor.run

(* C9: a call of TrainPipeline.train ends normally, having gone through    *)
(* its stages in order.                                                    *)
C9_TrainCompletes ==
    pipeline.called =>
        /\ pipeline.exc = NoExc
        /\ pipeline.stages = <<"ingestion", "transformation", "model_trainer">>

(* C10: whatever is raised inside train or apply_data_transformation       *)
(* reaches the caller as a CustomException wrapping it, and a call in      *)
(* which something was raised does not end as a success.                   *)
C10_TrainingFailuresWrapped ==
    /\ pipeline.fault # NoExc =>
          pipeline.exc = <<"CustomException">> \o pipeline.fault
    /\ trainer.fault # NoExc =>
          /\ trainer.pc = "failed"
          /\ trainer.exc = <<"CustomException">> \o trainer.fault
    /\ trainer.pc \in {"transformed", "done"} =>
          trainer.fault = NoExc /\ trainer.exc = NoExc

C10_MissingColumnWrapped ==
    /\ trainer.pc = "failed"
    /\ trainer.log = <<>>
    /\ trainer.exc = <<"CustomException", "KeyError">>
    /\ pipeline.exc = <<"CustomException", "NameError">>

-----------------------------------------------------------------------------
(* The class of a raised exception: what an `except <Class>` clause of a   *)
(* caller can tell apart.                                                  *)
Kind(e) == IF e = NoExc THEN "" ELSE e[1]

(* A call of predict that raised before both objects were loaded, and one  *)
(* that raised after.                                                      *)
LoadFailed(r) ==
    r.pc = "raised" /\ (r.model = NoObj \/ r.preprocessor = NoObj)

ScoringFailed(r) ==
    r.pc = "raised" /\ r.model # NoObj /\ r.preprocessor # NoObj

(* The kinds predict raises when transform or scoring fails.               *)
ScoringKinds == {Kind(WrapPredict(<<f>>)) : f \in {"ValueError"}}

(* C11: a call of predict that fails because the model or the preprocessor *)
(* artifact is absent raises an error whose kind differs from every kind   *)
(* raised when transform or scoring fails on loaded artifacts.             *)
C11_LoadFailureOwnKind ==
    \A w \in Workers :
        LoadFailed(req[w]) => Kind(req[w].exc) \notin ScoringKinds

-----------------------------------------------------------------------------
(* C12: with requests interleaved in separate workers over the same stored *)
(* artifacts, every finished request ended as predict run alone on its     *)
(* frame would end, and a step of one request changes neither the stored   *)
(* artifacts nor anything another request holds.                           *)
EndsAsAlone ==
    \A w \in Workers :
        req[w].pc \in Done =>
            [exc |-> req[w].exc, result |-> req[w].result]
                = PredictAlone(req[w].entry, store)

OwnStateOnly ==
    \A w \in Workers :
        req'[w] # req[w] =>
            /\ store' = store
            /\ \A v \in Workers \ {w} : req'[v] = req[v]

C12_ConcurrentIsolated == []EndsAsAlone /\ [][OwnStateOnly]_vars

(* Two requests with different frames, each finished with its own verdict. *)
C12_TwoVerdicts ==
    /\ req["w1"].pc = "returned" /\ req["w1"].result = BAD_RISK
    /\ req["w2"].pc = "returned" /\ req["w2"].result = GOOD_RISK
    /\ req["w1"].model = req["w2"].model
    /\ req["w1"].preprocessor = req["w2"].preprocessor

-----------------------------------------------------------------------------
(* The rows of a file after the recoding of Risk and Sex, and the fit of   *)
(* the training file of the run in progress on its own labels.             *)
Recoded(path) ==
    [i \in DOMAIN Files[path].rows |->
        [Files[path].rows[i] EXCEPT !.Risk = RiskMap(@), !.Sex = TrainSexMap(@)]]

FitOnTrainOnly ==
    LET X == Recoded(trainer.args[1])
    IN  PreprocessorFit(X, Column(X, target_feature), trainer.run)

IsPrefix(p, q) == Len(p) <= Len(q) /\ SubSeq(q, 1, Len(p)) = p

(* C13: a run of apply_data_transformation calls fit_transform once, then  *)
(* transform, then save_object, stopping at the first that raises; when it *)
(* succeeds, the stored preprocessor is the fit on the training features   *)
(* and training labels alone, both prepared sets are that object's         *)
(* transform of their features, and when it fails before save_object the   *)
(* stored preprocessor is not of this run.                                 *)
C13_FitOnceOnTrain ==
    /\ trainer.run > 0 =>
          IsPrefix(SubSeq(trainer.log, 1, IF Len(trainer.log) < 3 THEN Len(trainer.log) ELSE 3),
                   <<"fit_transform", "transform", "save_object">>)
    /\ trainer.pc = "transformed" =>
          LET X_train == Recoded(trainer.args[1])
              X_test == Recoded(trainer.args[2])
          IN  /\ trainer.log = <<"fit_transform", "transform", "save_object">>
              /\ store.preprocessor = FitOnTrainOnly
              /\ trainer.train_prepared =
                    Prepared(Transform(FitOnTrainOnly, X_train).val,
                             Column(X_train, target_feature))
              /\ trainer.test_prepared =
                    Prepared(Transform(FitOnTrainOnly, X_test).val,
                             Column(X_test, target_feature))
    /\ (trainer.run > 0 /\ "save_object" \notin Range(trainer.log)) =>
          \/ store.preprocessor = NoObj
          \/ store.preprocessor.run # trainer.run

(* A run that succeeded on a test set whose labels differ from the         *)
(* training labels of the same positions.                                  *)
C13_SavedAfterBothTransforms ==
    /\ trainer.pc = "transformed"
    /\ trainer.args = <<"train.csv", "test.csv">>
    /\ store.preprocessor.run = trainer.run
    /\ Column(Recoded("test.csv"), target_feature)[1]
          # Column(Recoded("train.csv"), target_feature)[1]

-----------------------------------------------------------------------------
(* C14: of the frame given to predict only the Sex column changes; the     *)
(* frame is as given until both objects are loaded and when a load fails;  *)
(* from the recoding on, also after a later failure, Sex holds the recoded *)
(* value; after a return Sex is neither 'male' nor 'female'.               *)
C14_SexOverwrittenInPlace ==
    \A w \in Workers :
        LET r == req[w]
        IN  r.pc # "idle" =>
              /\ \A f \in FeatureColumns \ {"Sex"} : r.features[f] = r.entry[f]
              /\ (r.pc \in {"load_model", "load_preprocessor", "map_sex"} \/ LoadFailed(r))
                    => r.features = r.entry
              /\ (r.pc \in {"transform", "predict_proba", "returned"} \/ ScoringFailed(r))
                    => r.features.Sex = SexMap(r.entry.Sex)
              /\ r.pc = "returned"
                    => r.features.Sex \notin {Str("male"), Str("female")}

(* A call given Sex 'male' that raised after the recoding: the caller's    *)
(* frame holds the code.                                                   *)
C14_RecodedThenRaised ==
    \E w \in Workers :
        /\ ScoringFailed(req[w])
        /\ req[w].entry.Sex = Str("male")
        /\ req[w].features.Sex = SexMap(Str("male"))
        /\ req[w].features.Sex # req[w].entry.Sex

====
